---- MODULE Spec2Model ----
(***************************************************************************)
(* trackinator (src/src/main.rs): a manifest of audio tracks kept in a     *)
(* JSON file, edited by the add / format / template actions and probed by  *)
(* the concurrent check action.                                            *)
(*                                                                         *)
(* Strings are sequences of one-character strings.  The manifest file is   *)
(* modelled as JSON text: a layout (whitespace) tag and the sequence of    *)
(* members in file order, every string literal written character by        *)
(* character with the escape form used for each character.                 *)
(***************************************************************************)
EXTENDS Bags, FiniteSets, Integers, Sequences, TLC

\* ------------------------------------------------------------------ bounds
\* Most tracks of a manifest the check action is run on.
MaxSongs == 2

\* Most songs of a manifest file the store actions start from.
MaxInitSongs == 1

\* Most songs a manifest file grows to by add.
MaxStored == 3

\* ---------------------------------------------------------------- alphabet
Quote == "\""
InvalidByte == "#"
Chars == {"a", Quote}

\* ------------------------------------------------------------- sequences
Range(s) == {s[i] : i \in 1..Len(s)}

SeqsUpTo(S, n) == UNION {[1..k -> S] : k \in 0..n}

RECURSIVE SeqToBag(_)
SeqToBag(s) ==
  IF s = <<>> THEN EmptyBag ELSE SeqToBag(Tail(s)) (+) SetToBag({Head(s)})

\* ------------------------------------------------------------- data model
\* struct Song { name: String, path: PathBuf }
Song(name, path) == [name |-> name, path |-> path]

\* struct Manifest { title: String, prefix: String, songs: Vec<Song> }
Manifest(title, prefix, songs) == [title |-> title, prefix |-> prefix, songs |-> songs]

\* #[derive(Default)] on Manifest
DefaultManifest == Manifest(<<>>, <<>>, <<>>)

\* ---------------------------------------------------- JSON text of a file
\* One character of a string literal: raw, short escape (\") or \uXXXX.
Lit(c, esc) == [c |-> c, esc |-> esc]

\* A member of the top-level object or of a song object.
Member(key, ty, str, arr) == [key |-> key, ty |-> ty, str |-> str, arr |-> arr]

StrMember(key, lit) == Member(key, "string", lit, <<>>)

NoFile == [exists |-> FALSE, ws |-> "none", members |-> <<>>]

FileText(ws, members) == [exists |-> TRUE, ws |-> ws, members |-> members]

\* ------------------------------------------------------------ serializer
\* A writer that forgets to escape.
EscapeChar_raw(c) == Lit(c, "raw")

\* serde_json's string writer: the quote is written \", other characters raw.
EscapeChar(c) == IF c = Quote THEN Lit(c, "short") ELSE Lit(c, "raw")

EscapeStr(s) == [i \in 1..Len(s) |-> EscapeChar(s[i])]

\* Serialize for PathBuf fails on a path that is not valid UTF-8.
IsUtf8(path) == InvalidByte \notin Range(path)

SerializeSong(s) == <<StrMember("name", EscapeStr(s.name)), StrMember("path", EscapeStr(s.path))>>

\* serde_json::to_string_pretty(&manifest): fields in declaration order.
to_string_pretty(m) ==
  [ok |-> \A i \in 1..Len(m.songs) : IsUtf8(m.songs[i].path),
   text |-> FileText("pretty",
       <<StrMember("title", EscapeStr(m.title)),
         StrMember("prefix", EscapeStr(m.prefix)),
         Member("songs", "array", <<>>,
                [i \in 1..Len(m.songs) |-> SerializeSong(m.songs[i])])>>)]

\* ------------------------------------------------------------------ parser
\* A raw quote would end the literal, and \a is no JSON escape.
ValidLit(l) ==
  \/ l.esc = "uni"
  \/ l.esc = "raw" /\ l.c # Quote
  \/ l.esc = "short" /\ l.c = Quote

ValidStr(lit) == \A i \in 1..Len(lit) : ValidLit(lit[i])

UnescapeStr(lit) == [i \in 1..Len(lit) |-> lit[i].c]

Keys(obj) == {obj[i].key : i \in 1..Len(obj)}

Duplicated(obj, fields) ==
  \E i, j \in 1..Len(obj) : i < j /\ obj[i].key = obj[j].key /\ obj[i].key \in fields

Field(obj, key) == obj[CHOOSE i \in 1..Len(obj) : obj[i].key = key]

\* Every string of the text must be well formed, also in an ignored member.
WellFormedObj(obj) == \A i \in 1..Len(obj) : obj[i].ty = "string" => ValidStr(obj[i].str)

\* derive(Deserialize) for Song: both fields required, unknown members ignored.
SongOk(obj) ==
  /\ WellFormedObj(obj)
  /\ {"name", "path"} \subseteq Keys(obj)
  /\ ~Duplicated(obj, {"name", "path"})
  /\ Field(obj, "name").ty = "string"
  /\ Field(obj, "path").ty = "string"

DeserializeSong(obj) ==
  Song(UnescapeStr(Field(obj, "name").str), UnescapeStr(Field(obj, "path").str))

\* derive(Deserialize) for Manifest.
ManifestOk(obj) ==
  /\ WellFormedObj(obj)
  /\ {"title", "prefix", "songs"} \subseteq Keys(obj)
  /\ ~Duplicated(obj, {"title", "prefix", "songs"})
  /\ Field(obj, "title").ty = "string"
  /\ Field(obj, "prefix").ty = "string"
  /\ Field(obj, "songs").ty = "array"
  /\ \A i \in 1..Len(obj) :
       obj[i].ty = "array" => \A k \in 1..Len(obj[i].arr) : WellFormedObj(obj[i].arr[k])
  /\ \A k \in 1..Len(Field(obj, "songs").arr) : SongOk(Field(obj, "songs").arr[k])

DeserializeManifest(obj) ==
  Manifest(UnescapeStr(Field(obj, "title").str),
           UnescapeStr(Field(obj, "prefix").str),
           [k \in 1..Len(Field(obj, "songs").arr) |-> DeserializeSong(Field(obj, "songs").arr[k])])

\* File::open(manifest) followed by serde_json::from_reader(reader).
from_reader(f) ==
  IF ~f.exists THEN [ok |-> FALSE, err |-> "Failed to open manifest", m |-> DefaultManifest]
  ELSE IF ~ManifestOk(f.members)
       THEN [ok |-> FALSE, err |-> "Failed to read manifest", m |-> DefaultManifest]
       ELSE [ok |-> TRUE, err |-> "", m |-> DeserializeManifest(f.members)]

\* ------------------------------------------------------------ URL resolver
\* fn song_url(prefix, path) = format!("{}{}", prefix, path)
song_url(prefix, path) == prefix \o path

\* song.path.to_str().unwrap_or_default()
to_str_or_default(path) == IF IsUtf8(path) THEN path ELSE <<>>

\* --------------------------------------------------------------- the state
VARIABLES
  file,      \* text of the manifest file (tracks.json)
  pc,        \* position of main: "start", "spawn", "join", "done"
  manifest,  \* the manifest loaded by the running check action
  tasks,     \* the spawned check tasks, in handle order
  finished,  \* indices of the tasks in the order they ended
  stdout,    \* the "Checking {url}" lines
  stderr,    \* the "not reachable {url}" lines
  result,    \* how main ended: "Ok", "exit", or the context of the error returned
  cause,     \* index of the task whose error main returned, 0 if none
  exitCode,  \* exit status of the process, -1 while it runs
  last,      \* the last manifest action run on the file
  orig,      \* the manifest of the file when it was last created
  added      \* the songs added since then, in order

vars == <<file, pc, manifest, tasks, finished, stdout, stderr, result, cause, exitCode,
          last, orig, added>>

checkVars == <<pc, manifest, tasks, finished, stdout, stderr, result, cause, exitCode>>

storeVars == <<last, orig, added>>

\* ------------------------------------------------- reachability checker
\* lychee_lib::Status values a Response can carry.
Statuses == {"Ok", "Error", "Timeout"}

\* A check that takes a timeout for a success.
is_success_lenient(status) == status \in {"Ok", "Timeout"}

\* response.status().is_success()
is_success(status) == status = "Ok"

Task(url, state, status) == [url |-> url, state |-> state, status |-> status]

\* A task has ended: with a Response, with Err(ErrorKind), or by a panic.
Ended(t) == t.state \in {"response", "err", "panicked"}

InFlight(t) == t.state \in {"running", "silent"}

\* A join that returns at the first task that has ended.
try_join_all_first(ts) ==
  IF \E i \in 1..Len(ts) : ts[i].state = "panicked" THEN "err"
  ELSE IF \E i \in 1..Len(ts) : ts[i].state \in {"response", "err"} THEN "ok"
  ELSE "pending"

\* A join that takes a panicked task for one more ended check.
try_join_all_lenient(ts) ==
  IF \A i \in 1..Len(ts) : ts[i].state \in {"response", "err", "panicked"} THEN "ok"
  ELSE "pending"

\* futures::future::try_join_all(handles): the first JoinError found ends the
\* wait at once; otherwise it is pending until every handle has its output.
try_join_all(ts) ==
  IF \E i \in 1..Len(ts) : ts[i].state = "panicked" THEN "err"
  ELSE IF \A i \in 1..Len(ts) : ts[i].state \in {"response", "err"} THEN "ok"
  ELSE "pending"

\* .into_iter().collect::<Result<Vec<Response>, _>>(): the first Err in handle
\* order, 0 when every output is a Response.
FirstErr(ts) ==
  IF \E i \in 1..Len(ts) : ts[i].state = "err"
  THEN CHOOSE i \in 1..Len(ts) : ts[i].state = "err" /\ \A j \in 1..(i - 1) : ts[j].state # "err"
  ELSE 0

\* A report that lists the reachable URLs instead.
RECURSIVE NotReachable_inverted(_)
NotReachable_inverted(ts) ==
  IF ts = <<>> THEN <<>>
  ELSE (IF is_success(Head(ts).status) THEN <<Head(ts).url>> ELSE <<>>)
         \o NotReachable_inverted(Tail(ts))

\* A report that walks the responses in the order the checks ended.
RECURSIVE UrlsInOrder(_, _)
UrlsInOrder(ts, order) ==
  IF order = <<>> THEN <<>>
  ELSE (IF is_success(ts[Head(order)].status) THEN <<>> ELSE <<ts[Head(order)].url>>)
         \o UrlsInOrder(ts, Tail(order))

NotReachable_completion(ts) == UrlsInOrder(ts, finished)

\* for response in responses { if !is_success { eprintln!("not reachable {}") } }
RECURSIVE NotReachable(_)
NotReachable(ts) ==
  IF ts = <<>> THEN <<>>
  ELSE (IF is_success(Head(ts).status) THEN <<>> ELSE <<Head(ts).url>>) \o NotReachable(Tail(ts))

\* Action::Check, up to the spawn loop: open and read the manifest.
CheckLoad ==
  /\ pc = "start"
  /\ LET r == from_reader(file) IN
       IF r.ok
       THEN /\ manifest' = r.m
            /\ pc' = IF Len(r.m.songs) = 0 THEN "join" ELSE "spawn"
            /\ UNCHANGED <<result, exitCode>>
       ELSE /\ result' = r.err
            /\ exitCode' = 1
            /\ pc' = "done"
            /\ UNCHANGED manifest
  /\ UNCHANGED <<file, tasks, finished, stdout, stderr, cause, storeVars>>

\* A loop that awaits each check before it spawns the next.
SpawnNext_serial ==
  /\ pc = "spawn"
  /\ Len(tasks) < Len(manifest.songs)
  /\ \A i \in 1..Len(tasks) : tasks[i].state \in {"response", "err", "panicked"}
  /\ LET song == manifest.songs[Len(tasks) + 1]
         url == song_url(manifest.prefix, to_str_or_default(song.path)) IN
       /\ stdout' = Append(stdout, url)
       /\ tasks' = Append(tasks, [url |-> url, state |-> "running", status |-> "none"])
  /\ pc' = IF Len(tasks) + 1 = Len(manifest.songs) THEN "join" ELSE "spawn"
  /\ UNCHANGED <<file, manifest, finished, stderr, result, cause, exitCode, last, orig, added>>

\* One turn of `for song in manifest.songs`: print, spawn, push the handle.
SpawnNext ==
  /\ pc = "spawn"
  /\ Len(tasks) < Len(manifest.songs)
  /\ LET song == manifest.songs[Len(tasks) + 1]
         url == song_url(manifest.prefix, to_str_or_default(song.path)) IN
       /\ stdout' = Append(stdout, url)
       /\ tasks' = Append(tasks, Task(url, "running", "none"))
  /\ pc' = IF Len(tasks) + 1 = Len(manifest.songs) THEN "join" ELSE "spawn"
  /\ UNCHANGED <<file, manifest, finished, stderr, result, cause, exitCode, storeVars>>

\* lychee_lib::check(url) returns Ok(Response) with some status.
TaskRespond(i, status) ==
  /\ pc # "done"
  /\ i \in 1..Len(tasks)
  /\ tasks[i].state = "running"
  /\ tasks' = [tasks EXCEPT ![i] = Task(@.url, "response", status)]
  /\ finished' = Append(finished, i)
  /\ UNCHANGED <<file, pc, manifest, stdout, stderr, result, cause, exitCode, storeVars>>

\* lychee_lib::check(url) returns Err(ErrorKind).
TaskErr(i) ==
  /\ pc # "done"
  /\ i \in 1..Len(tasks)
  /\ tasks[i].state = "running"
  /\ tasks' = [tasks EXCEPT ![i] = Task(@.url, "err", "none")]
  /\ finished' = Append(finished, i)
  /\ UNCHANGED <<file, pc, manifest, stdout, stderr, result, cause, exitCode, storeVars>>

\* The spawned task panics: its JoinHandle yields a JoinError.
TaskPanic(i) ==
  /\ pc # "done"
  /\ i \in 1..Len(tasks)
  /\ tasks[i].state = "running"
  /\ tasks' = [tasks EXCEPT ![i] = Task(@.url, "panicked", "none")]
  /\ finished' = Append(finished, i)
  /\ UNCHANGED <<file, pc, manifest, stdout, stderr, result, cause, exitCode, storeVars>>

\* The host never answers; nothing in the action bounds the wait of the task.
HostSilent(i) ==
  /\ pc # "done"
  /\ i \in 1..Len(tasks)
  /\ tasks[i].state = "running"
  /\ tasks' = [tasks EXCEPT ![i] = Task(@.url, "silent", "none")]
  /\ UNCHANGED <<file, pc, manifest, finished, stdout, stderr, result, cause, exitCode, storeVars>>

\* try_join_all(...).await.context("Failed to join the check tasks")?
JoinFail ==
  /\ pc = "join"
  /\ try_join_all(tasks) = "err"
  /\ result' = "Failed to join the check tasks"
  /\ exitCode' = 1
  /\ pc' = "done"
  /\ UNCHANGED <<file, manifest, tasks, finished, stdout, stderr, cause, storeVars>>

\* Every handle joined: collect, report, decide the exit status.
JoinOk ==
  /\ pc = "join"
  /\ try_join_all(tasks) = "ok"
  /\ IF FirstErr(tasks) # 0
     THEN /\ result' = "Resource unreachable"
          /\ cause' = FirstErr(tasks)
          /\ exitCode' = 1
          /\ UNCHANGED stderr
     ELSE /\ stderr' = NotReachable(tasks)
          /\ result' = IF NotReachable(tasks) # <<>> THEN "exit" ELSE "Ok"
          /\ exitCode' = IF NotReachable(tasks) # <<>> THEN 1 ELSE 0
          /\ UNCHANGED cause
  /\ pc' = "done"
  /\ UNCHANGED <<file, manifest, tasks, finished, stdout, storeVars>>

\* Manifests the check action is run on.
CheckPrefixes == {<<>>, <<"a">>}

CheckPaths == {<<>>, <<"a">>, <<Quote>>}

CheckManifests ==
  {Manifest(<<"a">>, p, s) :
     p \in CheckPrefixes, s \in SeqsUpTo({Song(<<"a">>, x) : x \in CheckPaths}, MaxSongs)}

InitCheckVars ==
  /\ pc = "start"
  /\ manifest = DefaultManifest
  /\ tasks = <<>>
  /\ finished = <<>>
  /\ stdout = <<>>
  /\ stderr = <<>>
  /\ result = "running"
  /\ cause = 0
  /\ exitCode = -1

\* What a load of the file gives: whether it succeeds, and the manifest.
Loaded(f) == [ok |-> from_reader(f).ok, m |-> from_reader(f).m]

LastOp(op, ok, pre, song) ==
  [op |-> op, ok |-> ok, pre |-> pre, song |-> song, prevOp |-> last.op, prevOk |-> last.ok]

InitStoreVars ==
  /\ last = [op |-> "none", ok |-> FALSE, pre |-> NoFile, song |-> Song(<<>>, <<>>),
             prevOp |-> "none", prevOk |-> FALSE]
  /\ orig = Loaded(file)
  /\ added = <<>>

Init ==
  /\ file \in {to_string_pretty(m).text : m \in CheckManifests}
               \cup {NoFile, FileText("compact", <<StrMember("title", <<>>)>>)}
  /\ InitCheckVars
  /\ InitStoreVars

Next ==
  \/ CheckLoad
  \/ SpawnNext
  \/ \E i \in 1..MaxSongs, s \in Statuses : TaskRespond(i, s)
  \/ \E i \in 1..MaxSongs : TaskErr(i)
  \/ \E i \in 1..MaxSongs : TaskPanic(i)
  \/ \E i \in 1..MaxSongs : HostSilent(i)
  \/ JoinFail
  \/ JoinOk

Spec == Init /\ [][Next]_vars

\* ---------------------------------------------------------- manifest store
\* A push that puts the new song first.
push_front(songs, song) == <<song>> \o songs

\* manifest.songs.push(new_song)
push(songs, song) == Append(songs, song)

\* Action::Add: load, push the new song, serialize, write in place.
Add(name, path) ==
  LET r == from_reader(file)
      new_song == Song(name, path)
      m == [r.m EXCEPT !.songs = push(@, new_song)]
      w == to_string_pretty(m) IN
    /\ r.ok => Len(r.m.songs) < MaxStored
    /\ IF r.ok /\ w.ok
       THEN /\ file' = w.text
            /\ last' = LastOp("add", TRUE, file, new_song)
            /\ added' = Append(added, new_song)
       ELSE /\ last' = LastOp("add", FALSE, file, new_song)
            /\ UNCHANGED <<file, added>>
    /\ UNCHANGED <<orig, checkVars>>

\* Action::Format: load, serialize, write in place.
Format ==
  LET r == from_reader(file)
      w == to_string_pretty(r.m) IN
    /\ IF r.ok /\ w.ok
       THEN /\ file' = w.text
            /\ last' = LastOp("format", TRUE, file, Song(<<>>, <<>>))
       ELSE /\ last' = LastOp("format", FALSE, file, Song(<<>>, <<>>))
            /\ UNCHANGED file
    /\ UNCHANGED <<orig, added, checkVars>>

\* Action::Template: write the serialized default manifest.
Template ==
  LET empty == DefaultManifest
      w == to_string_pretty(empty) IN
    /\ file' = w.text
    /\ last' = LastOp("template", TRUE, file, Song(<<>>, <<>>))
    /\ orig' = [ok |-> TRUE, m |-> empty]
    /\ added' = <<>>
    /\ UNCHANGED checkVars

\* Values of --name (a String) and --path (a PathBuf, any bytes).
AddNames == {<<"a">>, <<Quote>>}

AddPaths == {<<"a">>, <<InvalidByte>>}

\* Manifest files as a user may have written them.
StoreStrings ==
  {<<>>, <<Lit("a", "uni")>>, <<Lit(Quote, "short")>>, <<Lit("a", "short")>>}

StoreSongObjs ==
  {<<StrMember("name", <<Lit("a", "raw")>>), StrMember("path", <<Lit("a", "raw")>>)>>,
   <<StrMember("path", <<Lit(Quote, "uni")>>), StrMember("name", <<Lit("a", "uni")>>)>>,
   <<StrMember("name", <<>>), StrMember("artist", <<Lit("a", "raw")>>), StrMember("path", <<>>)>>,
   <<StrMember("name", <<Lit("a", "raw")>>)>>,
   <<StrMember("name", <<Lit("a", "raw")>>), Member("path", "number", <<>>, <<>>)>>}

StoreLayouts(title, songs) ==
  {<<StrMember("title", title), StrMember("prefix", <<Lit("a", "raw")>>), songs>>,
   <<songs, StrMember("prefix", <<>>), StrMember("title", title)>>,
   <<StrMember("title", title), StrMember("artist", title), StrMember("prefix", <<>>), songs>>,
   <<StrMember("title", title), songs>>,
   <<StrMember("title", title), StrMember("title", title), StrMember("prefix", <<>>), songs>>,
   <<Member("title", "number", <<>>, <<>>), StrMember("prefix", <<>>), songs>>}

StoreFiles ==
  UNION {{FileText(ws, ms) : ms \in StoreLayouts(t, Member("songs", "array", <<>>, a))} :
           ws \in {"pretty", "compact"}, t \in StoreStrings,
           a \in SeqsUpTo(StoreSongObjs, MaxInitSongs)}

StoreInit ==
  /\ file \in StoreFiles \cup {NoFile}
  /\ InitCheckVars
  /\ InitStoreVars

StoreNext ==
  \/ \E name \in AddNames, path \in AddPaths : Add(name, path)
  \/ Format
  \/ Template

StoreSpec == StoreInit /\ [][StoreNext]_vars

\* ------------------------------------------------------------- properties
LoadFailed == result \in {"Failed to open manifest", "Failed to read manifest"}

JoinFailed == result = "Failed to join the check tasks"

\* The check outcome of a track is a Failure: a response whose status is not a
\* success, or an error value.
Failure(t) == t.state = "err" \/ (t.state = "response" /\ t.status # "Ok")

Success(t) == t.state = "response" /\ t.status = "Ok"

AllSpawned == Len(tasks) = Len(manifest.songs)

\* The URLs of the failing tracks, each as often as tracks with it fail.
FailingUrls ==
  LET F == {i \in 1..Len(tasks) : Failure(tasks[i])} IN
    [u \in {tasks[i].url : i \in F} |-> Cardinality({i \in F : tasks[i].url = u})]

\* The URLs of the failing tracks in manifest order.
RECURSIVE FailingFrom(_)
FailingFrom(i) ==
  IF i > Len(tasks) THEN <<>>
  ELSE (IF Failure(tasks[i]) THEN <<tasks[i].url>> ELSE <<>>) \o FailingFrom(i + 1)

\* C1: a check run whose tasks were all joined ends with a non-zero exit status
\* exactly when some track's outcome is a Failure; with zero tracks it ends
\* with status 0 and reports nothing.
C1_ExitStatusIffFailure ==
  (pc = "done" /\ ~LoadFailed /\ ~JoinFailed) =>
    /\ AllSpawned
    /\ (exitCode # 0) <=> (\E i \in 1..Len(tasks) : Failure(tasks[i]))
    /\ exitCode \in {0, 1}
    /\ Len(manifest.songs) = 0 => (exitCode = 0 /\ stderr = <<>> /\ result = "Ok")

C1_Witness ==
  /\ pc = "done"
  /\ Len(tasks) = 2
  /\ Success(tasks[1])
  /\ tasks[2].state = "err"
  /\ exitCode = 1

\* C2: when every track answered with a status, some with a success and some
\* not, exactly the URLs of the failing tracks are reported and the exit code
\* is 1.
C2_ReportsExactlyFailures ==
  ( /\ pc = "done"
    /\ ~LoadFailed
    /\ \A i \in 1..Len(tasks) : tasks[i].state = "response"
    /\ \E i \in 1..Len(tasks) : Success(tasks[i])
    /\ \E i \in 1..Len(tasks) : Failure(tasks[i]) ) =>
    /\ SeqToBag(stderr) = FailingUrls
    /\ exitCode = 1

C2_Witness ==
  /\ pc = "done"
  /\ Len(tasks) = 2
  /\ Success(tasks[1])
  /\ tasks[2].state = "response" /\ tasks[2].status = "Error"
  /\ tasks[1].url # tasks[2].url
  /\ stderr = <<tasks[2].url>>
  /\ exitCode = 1

\* C3 (as claimed): a failed check of a track, also one that returned an error
\* value, never aborts the action; every failing track is still reported.
C3_FailureNeverAborts ==
  ( /\ pc = "done"
    /\ \E i \in 1..Len(tasks) : tasks[i].state = "err"
    /\ \A i \in 1..Len(tasks) : tasks[i].state \in {"response", "err"} ) =>
    /\ result = "exit"
    /\ \A i \in 1..Len(tasks) : Failure(tasks[i]) => tasks[i].url \in Range(stderr)

\* C4 (as claimed): nothing is reported and no exit status is decided while a
\* dispatched check is still running.
C4_NoExitWhileRunning ==
  (stderr # <<>> \/ exitCode # -1) => \A i \in 1..Len(tasks) : ~InFlight(tasks[i])

\* C4 (amended): no URL is reported, and no exit status other than that of a
\* failed join is decided, before every track's check was dispatched and has
\* ended; a check that failed first does not end the run early.
C4_ReportAfterAllEnded ==
  (stderr # <<>> \/ (exitCode # -1 /\ ~JoinFailed /\ ~LoadFailed)) =>
    /\ AllSpawned
    /\ \A i \in 1..Len(tasks) : Ended(tasks[i])

C4_Witness ==
  /\ pc = "done"
  /\ result = "exit"
  /\ finished = <<1, 2>>
  /\ Failure(tasks[1])
  /\ Success(tasks[2])

\* C5: the spawn loop never waits for a check: while tracks remain it can spawn
\* the next one whatever the state of the spawned checks, and a running check
\* can end whatever the state of the others.
C5_DispatchIsConcurrent ==
  /\ pc = "spawn" => ENABLED SpawnNext
  /\ \A i \in 1..Len(tasks) :
       (tasks[i].state = "running" /\ pc # "done") => ENABLED TaskRespond(i, "Ok")

C5_Witness ==
  /\ pc = "join"
  /\ Len(tasks) >= 2
  /\ AllSpawned
  /\ \A i \in 1..Len(tasks) : InFlight(tasks[i])
  /\ tasks[1].state = "silent"
  /\ tasks[2].state = "running"

\* C6: when a check task panicked, the run ends with the join error, not as a
\* pass and not with a list of unreachable URLs, and it cannot end otherwise.
C6_JoinFailureAborts ==
  (\E i \in 1..Len(tasks) : tasks[i].state = "panicked") =>
    /\ pc = "join" => (ENABLED JoinFail /\ ~ENABLED JoinOk)
    /\ pc = "done" =>
         /\ result = "Failed to join the check tasks"
         /\ stderr = <<>>
         /\ exitCode # 0

C6_Witness ==
  /\ pc = "done"
  /\ Len(tasks) = 2
  /\ tasks[1].state = "response" /\ tasks[1].status = "Error"
  /\ tasks[2].state = "panicked"
  /\ JoinFailed

\* C7 (as claimed): a check run always comes to its end.
C7_AlwaysTerminates == pc = "done" \/ ENABLED Next

\* C8: a successful add leaves title and prefix alone and appends the one new
\* song; after any successful adds the songs are the original ones followed
\* by the added ones in the order they were added.
C8_AddAppends ==
  /\ (last.op = "add" /\ last.ok) =>
       Loaded(file) = [ok |-> TRUE,
                       m |-> [Loaded(last.pre).m EXCEPT !.songs = @ \o <<last.song>>]]
  /\ orig.ok => Loaded(file) = [ok |-> TRUE, m |-> [orig.m EXCEPT !.songs = @ \o added]]

C8_Witness ==
  /\ last.op = "add" /\ last.ok
  /\ orig.ok
  /\ Len(orig.m.songs) = 1
  /\ Len(added) = 2
  /\ added[1] # added[2]
  /\ Len(Loaded(file).m.songs) = 3

\* C9: format leaves title, prefix and songs as they were, and a format of a
\* file that format has just written writes the same text again.
C9_FormatIdempotent ==
  (last.op = "format" /\ last.ok) =>
    /\ Loaded(file).ok
    /\ Loaded(file) = Loaded(last.pre)
    /\ (last.prevOp = "format" /\ last.prevOk) => file = last.pre

C9_Witness ==
  /\ last.op = "format" /\ last.ok
  /\ last.prevOp = "format" /\ last.prevOk
  /\ file = last.pre
  /\ Loaded(file).m.title = <<Quote>>
  /\ Len(Loaded(file).m.songs) = 1

\* C10: the lines printed do not depend on the order in which the checks
\* ended: they are the URLs in manifest order, the failing ones among them in
\* manifest order, and an error returned is that of the first track with one.
C10_OutputInManifestOrder ==
  /\ stdout = [i \in 1..Len(tasks) |-> manifest.prefix \o manifest.songs[i].path]
  /\ (pc = "done" /\ result \in {"Ok", "exit"}) => stderr = FailingFrom(1)
  /\ (pc = "done" /\ result = "Resource unreachable") =>
       /\ tasks[cause].state = "err"
       /\ \A j \in 1..(cause - 1) : tasks[j].state # "err"

C10_Witness ==
  /\ pc = "done"
  /\ finished = <<2, 1>>
  /\ Failure(tasks[1]) /\ Failure(tasks[2])
  /\ tasks[1].url # tasks[2].url
  /\ stderr = <<tasks[1].url, tasks[2].url>>

====
